---- MODULE Spec2Model ----
(***************************************************************************)
(* Model of github-monitor: the provisioning generator                     *)
(* (generate_provisioning.py) and the backlog validator                    *)
(* (validate_backlog.py).                                                  *)
(*                                                                         *)
(* Text is modelled as a sequence of symbols.  A symbol is one character   *)
(* ("a", "/", ",", " ", "=") or a word whose inner letters the code never  *)
(* inspects ("REPOS", "GITHUB_TOKEN", a URL).  The string operators below  *)
(* are Python's str methods on that representation.                        *)
(***************************************************************************)
EXTENDS Integers, Sequences, FiniteSets, TLC

VARIABLES
    envFile,     \* the .env file: [state: "absent" | "ok" | "unreadable", lines]
    procEnv,     \* the environment the generator process is started with
    fault,       \* the one I/O fault of the file system: [kind, at]
    dirs,        \* directories that exist
    files,       \* path -> content of the artifact files
    environ,     \* os.environ of the generator process
    config,      \* <<>> or <<GrafanaConfig>>
    entry,       \* "none" | "main" | "lib": who drives the generator
    pc,          \* position of the generator
    error,       \* the step whose exception ended the run, or "none"
    exitCode,    \* main()'s return value, -1 while it has not returned
    runs,        \* generate_all() invocations on the current config
    pre,         \* files and dirs as they were when the generator began
    world,       \* what else the validator reads: dashboards, compose file,
                 \* scripts, the answers of the service and of docker
    setOrder,    \* the order list(set(...)) gave each set in this process
    ventry,      \* "none" | "main" | "lib": who drives the validator
    vpc,         \* position of the validator
    grafana_url, \* BacklogValidator.grafana_url
    results,     \* BacklogValidator.results
    report,      \* <<>> or <<what validate_all_requirements returned>>
    prevReport,  \* <<>> or <<what the invocation before returned>>
    calls,       \* validate_all_requirements() invocations on this validator
    raisedIn,    \* the rule whose check raised, or "none"
    vexit,       \* the validator main()'s return value, -1 while not returned
    stable,      \* the world is as it was when the first invocation began
    spc,         \* position of the interactive setup
    setup,       \* the answers run_setup has collected: its SetupConfig
    tries,       \* inputs the setup has rejected so far
    console,     \* what the setup has printed of a token: [at, token, shown]
    sexit        \* the setup main()'s return value, -1 while not returned

gvars == <<envFile, procEnv, fault, dirs, files, environ, config, entry, pc,
           error, exitCode, runs, pre>>

vvars == <<world, setOrder, ventry, vpc, grafana_url, results, report,
           prevReport, calls, raisedIn, vexit, stable>>

svars == <<spc, setup, tries, console, sexit>>

vars == <<gvars, vvars, svars>>

----------------------------------------------------------------------------
(* Bounds *)

\* longest comma-separated repository list placed in REPOS
MaxRepos == 2
\* generate_all() invocations on one config object
MaxRuns == 2
\* validate_all_requirements() invocations on one validator object
MaxCalls == 2
\* facts of the validator's world that differ from a healthy deployment
MaxDefects == 1
\* inputs the interactive setup rejects and asks again for, in one run
MaxTries == 1

----------------------------------------------------------------------------
(* Python str methods on symbol sequences *)

WS == {" "}
Quotes == {"\"", "'"}

RECURSIVE LStripChars(_, _)
LStripChars(s, cs) ==
    IF s # <<>> /\ Head(s) \in cs THEN LStripChars(Tail(s), cs) ELSE s

RECURSIVE RStripChars(_, _)
RStripChars(s, cs) ==
    IF s # <<>> /\ s[Len(s)] \in cs
    THEN RStripChars(SubSeq(s, 1, Len(s) - 1), cs)
    ELSE s

\* str.strip(chars)
StripChars(s, cs) == RStripChars(LStripChars(s, cs), cs)

\* str.strip()
Strip(s) == StripChars(s, WS)

\* index of the first occurrence of symbol c in s, 0 when there is none
IndexOf(s, c) ==
    IF \E i \in 1..Len(s) : s[i] = c
    THEN CHOOSE i \in 1..Len(s) : s[i] = c /\ \A j \in 1..(i - 1) : s[j] # c
    ELSE 0

\* str.split(sep) for a one-symbol separator
RECURSIVE Split(_, _)
Split(s, sep) ==
    LET i == IndexOf(s, sep)
    IN  IF i = 0 THEN <<s>>
        ELSE <<SubSeq(s, 1, i - 1)>> \o Split(SubSeq(s, i + 1, Len(s)), sep)

\* str.split(sep, 1)
Split1(s, sep) ==
    LET i == IndexOf(s, sep)
    IN  IF i = 0 THEN <<s>>
        ELSE <<SubSeq(s, 1, i - 1), SubSeq(s, i + 1, Len(s))>>

\* sep.join(parts)
RECURSIVE Join(_, _)
Join(parts, sep) ==
    IF parts = <<>> THEN <<>>
    ELSE IF Len(parts) = 1 THEN parts[1]
    ELSE parts[1] \o sep \o Join(Tail(parts), sep)

\* str.startswith(prefix)
StartsWith(s, p) == Len(s) >= Len(p) /\ SubSeq(s, 1, Len(p)) = p

\* str.lower(), on the symbols of the model that hold upper-case letters
LowerSym(c) ==
    CASE c = "TRUE" -> "true"
      [] c = "Open" -> "open"
      [] c = "Issues" -> "issues"
      [] c = "Merged" -> "merged"
      [] c = "Pull Requests" -> "pull requests"
      [] c = "PRs" -> "prs"
      [] c = "Commits" -> "commits"
      [] c = "Releases" -> "releases"
      [] c = "Sprint" -> "sprint"
      [] c = "Stars" -> "stars"
      [] OTHER -> c
Lower(s) == [i \in 1..Len(s) |-> LowerSym(s[i])]

\* set(s): the elements of a list
RECURSIVE Range(_)
Range(s) == IF s = <<>> THEN {} ELSE {Head(s)} \cup Range(Tail(s))

\* every ordering of a finite set without repetition: what list(set(...))
\* can return, the iteration order of a set of str being hash-dependent
Orderings(S) ==
    {q \in [1..Cardinality(S) -> S] : \A i, j \in 1..Cardinality(S) :
                                         i # j => q[i] # q[j]}

\* all sequences over S of length at most n
SeqsUpTo(S, n) == UNION {[1..k -> S] : k \in 0..n}

----------------------------------------------------------------------------
(* Keys and defaults *)

K_TOKEN == <<"GITHUB_TOKEN">>
K_REPOS == <<"REPOS">>
K_URL == <<"GF_SERVER_ROOT_URL">>
K_DOMAIN == <<"GF_SERVER_DOMAIN">>
K_ENFORCE == <<"GF_SERVER_ENFORCE_DOMAIN">>

DefaultUrl == <<"http://localhost:3000">>
DefaultDomain == <<"localhost">>

\* os.getenv(key, default)
Getenv(env, key, default) == IF key \in DOMAIN env THEN env[key] ELSE default

\* os.environ[key] = value
Setenv(env, key, value) ==
    [k \in (DOMAIN env) \cup {key} |-> IF k = key THEN value ELSE env[k]]

NoEnv == [k \in {} |-> <<>>]

----------------------------------------------------------------------------
(* Inputs: contents of .env and of the process environment *)

Token == <<"t", "k">>

\* repository entries: well-formed ones, one without '/', an empty one and
\* one with two '/'
RepoEntries ==
    { <<"a", "/", "x">>, <<"a", "/", "y">>, <<"b", "/", "y">>,
      <<"a">>, <<>>, <<"a", "/", "x", "/", "y">> }

ReposValues == {Join(q, <<",">>) : q \in SeqsUpTo(RepoEntries, MaxRepos)}

\* the way interactive_setup.py writes the list: ", " between the entries
ReposSpaced == {Join(q, <<",", " ">>) : q \in SeqsUpTo(RepoEntries, MaxRepos)}

L_Token == K_TOKEN \o <<"=">> \o Token
L_TokenEmpty == K_TOKEN \o <<"=">>
L_Comment == <<"#", " ", "c">>
L_IndentedComment == <<" ", "#", " ", "c">>
L_Blank == <<" ">>
L_Junk == <<"j">>
L_NoKey == <<"=", "j">>
L_Enforce == K_ENFORCE \o <<"=", "TRUE">>
L_NoEnforce == K_ENFORCE \o <<"=", "false">>
L_Url == K_URL \o <<"=", "http://gh.example:3000">>
L_Domain == K_DOMAIN \o <<"=", "gh.example">>

L_Repos(v) == K_REPOS \o <<"=">> \o v
L_ReposQuoted(v) == K_REPOS \o <<"=", "\"">> \o v \o <<"\"">>

EnvFileLines ==
    \* a token and a repository list, plain or as the setup writes them
    { <<L_Comment, L_Blank, L_Token, L_Repos(v)>> : v \in ReposValues }
    \cup { <<L_Token, L_ReposQuoted(v), L_Url, L_Domain, L_NoEnforce>> :
              v \in ReposSpaced }
    \* no token, an empty token, no repository list
    \cup { <<L_Repos(<<"a", "/", "x">>)>>,
           <<L_TokenEmpty, L_Repos(<<"a", "/", "x">>)>>,
           <<L_Token>>,
           <<>> }
    \* lines the parser stumbles over, before or after the settings
    \cup { <<L_Token, L_Repos(<<"a", "/", "x">>), L_Junk>>,
           <<L_IndentedComment, L_Token, L_Repos(<<"a", "/", "x">>)>>,
           <<L_NoKey, L_Token, L_Repos(<<"a", "/", "x">>)>>,
           <<L_Token, L_Repos(<<"a", "/", "x">>), L_Enforce>> }

EnvFiles ==
    { [state |-> "absent", lines |-> <<>>] }
    \cup { [state |-> "ok", lines |-> ls] : ls \in EnvFileLines }

ProcEnvs ==
    { NoEnv,
      Setenv(NoEnv, K_TOKEN, Token),
      Setenv(Setenv(NoEnv, K_TOKEN, Token), K_REPOS,
             <<"b", "/", "y", ",", "a", "/", "x">>) }

----------------------------------------------------------------------------
(* File system *)

DirOrder ==
    << "provisioning/datasources", "provisioning/dashboards",
       "provisioning/access-control", "dashboards" >>
Dirs == Range(DirOrder)
\* parents=True also makes the parent of the first three
AllDirs == Dirs \cup {"provisioning"}

P_Datasource == "provisioning/datasources/datasource.yaml"
P_Provider == "provisioning/dashboards/dashboard.yaml"
P_Access == "provisioning/access-control/api-permissions.yaml"
P_Ini == "grafana.ini.template"
P_Filter == "dashboard_config.json"

\* the five artifacts in the order generate_all writes them
ArtifactOrder == <<P_Datasource, P_Provider, P_Access, P_Ini, P_Filter>>
Artifacts == Range(ArtifactOrder)

Absent == [kind |-> "absent"]
\* content that some other tool or an earlier hand edit left behind
Foreign == [kind |-> "foreign"]

Exists(content) == content.kind # "absent"

NoFault == [kind |-> "none", at |-> ""]
\* one path that cannot be created (mkdir) or opened for writing (open)
Faults ==
    {NoFault}
    \cup {[kind |-> "mkdir", at |-> d] : d \in AllDirs}
    \cup {[kind |-> "write", at |-> p] : p \in Artifacts}

\* the content an appending open(path, "a") would leave: the new payload
\* after whatever the file held
WriteFileAppend(fs, path, payload) ==
    [fs EXCEPT ![path] = IF Exists(fs[path])
                         THEN [kind |-> "appended", old |-> fs[path],
                               new |-> payload]
                         ELSE payload]

\* with open(path, "w") as f: dump(payload, f) -- a full replace
WriteFile(fs, path, payload) == [fs EXCEPT ![path] = payload]

----------------------------------------------------------------------------
(* load_config_from_env *)

\* the for-loop over the lines of .env: the environment it leaves and
\* whether it raised (a line without '=' cannot be unpacked into key and
\* value; os.environ rejects an empty key)
RECURSIVE LoadLines(_, _)
LoadLines(lines, env) ==
    IF lines = <<>> THEN [env |-> env, raised |-> FALSE]
    ELSE LET line == Head(lines)
         IN  IF Strip(line) # <<>> /\ ~StartsWith(line, <<"#">>)
             THEN LET kv == Split1(Strip(line), "=")
                  IN  IF Len(kv) # 2 \/ kv[1] = <<>>
                      THEN [env |-> env, raised |-> TRUE]
                      ELSE LoadLines(Tail(lines),
                                     Setenv(env, kv[1],
                                            StripChars(kv[2], Quotes)))
             ELSE LoadLines(Tail(lines), env)

LoadEnvFile(file, env) ==
    IF file.state = "absent" THEN [env |-> env, raised |-> FALSE]
    ELSE IF file.state = "unreadable" THEN [env |-> env, raised |-> TRUE]
    ELSE LoadLines(file.lines, env)

\* the check without its REPOS half
ConfigErrorTokenOnly(env) == Getenv(env, K_TOKEN, <<>>) = <<>>

\* if not github_token: raise ...; if not repos_str: raise ...
ConfigError(env) ==
    \/ Getenv(env, K_TOKEN, <<>>) = <<>>
    \/ Getenv(env, K_REPOS, <<>>) = <<>>

\* [repo.strip() for repo in repos_str.split(",")]
ParseRepositories(repos_str) ==
    LET parts == Split(repos_str, ",")
    IN  [i \in 1..Len(parts) |-> Strip(parts[i])]

\* set(repo.split("/")[0] for repo in repositories)
OwnerSet(repositories) == {Split(r, "/")[1] : r \in Range(repositories)}

\* the GrafanaConfig load_config_from_env returns, given the order in which
\* list(set(...)) happened to yield the owners
EnvConfig(env, organizations) ==
    [ github_token |-> Getenv(env, K_TOKEN, <<>>),
      organizations |-> organizations,
      repositories |-> ParseRepositories(Getenv(env, K_REPOS, <<>>)),
      server_root_url |-> Getenv(env, K_URL, DefaultUrl),
      server_domain |-> Getenv(env, K_DOMAIN, DefaultDomain),
      enforce_domain |-> Lower(Getenv(env, K_ENFORCE, <<"true">>)) = <<"true">> ]

\* GrafanaConfig(...) built by a caller: the dataclass checks nothing
DirectConfigs ==
    { [ github_token |-> Token,
        organizations |-> o,
        repositories |-> r,
        server_root_url |-> DefaultUrl,
        server_domain |-> DefaultDomain,
        enforce_domain |-> TRUE ] :
      o \in { <<>>, << <<"a">> >>, << <<"b">>, <<"a">> >>, << <<"c">> >> },
      r \in { <<>>, << <<"a", "/", "x">> >>,
              << <<"a", "/", "x">>, <<"b", "/", "y">> >> } }

----------------------------------------------------------------------------
(* Payloads *)

\* a datasource that carries the token of the config itself
DatasourcePayloadLiteral(cfg) ==
    [ kind |-> "yaml",
      data |-> [ apiVersion |-> 1,
                 datasources |-> <<
                   [ name |-> "GitHub",
                     type |-> "grafana-github-datasource",
                     access |-> "proxy",
                     isDefault |-> TRUE,
                     secureJsonData |-> [accessToken |-> cfg.github_token],
                     editable |-> FALSE ] >> ] ]

DatasourcePayload(cfg) ==
    [ kind |-> "yaml",
      data |-> [ apiVersion |-> 1,
                 datasources |-> <<
                   [ name |-> "GitHub",
                     type |-> "grafana-github-datasource",
                     access |-> "proxy",
                     isDefault |-> TRUE,
                     secureJsonData |-> [accessToken |-> "${GITHUB_TOKEN}"],
                     editable |-> FALSE ] >> ] ]

ProviderPayload(cfg) ==
    [ kind |-> "yaml",
      data |-> [ apiVersion |-> 1,
                 providers |-> <<
                   [ name |-> "default",
                     orgId |-> 1,
                     folder |-> "",
                     type |-> "file",
                     disableDeletion |-> TRUE,
                     updateIntervalSeconds |-> 10,
                     allowUiUpdates |-> FALSE,
                     options |-> [ path |-> "/var/lib/grafana/dashboards",
                                   foldersFromFilesStructure |-> TRUE ] ] >> ] ]

AccessPayload(cfg) ==
    [ kind |-> "yaml",
      data |-> [ apiVersion |-> 1,
                 roles |-> <<
                   [ name |-> "restricted_viewer",
                     permissions |-> <<
                       [action |-> "dashboards:read", scope |-> "dashboards:*"],
                       [action |-> "datasources:read", scope |-> "datasources:*"] >> ] >>,
                 assignments |-> <<
                   [ name |-> "read_only_anon",
                     role |-> "restricted_viewer",
                     target |-> "anonymous" ] >> ] ]

IniPayload(cfg) ==
    [ kind |-> "ini",
      data |-> [ root_url |-> cfg.server_root_url,
                 domain |-> cfg.server_domain,
                 enforce_domain |-> IF cfg.enforce_domain THEN "true" ELSE "false",
                 anonymous_enabled |-> "true",
                 disable_login_form |-> "true",
                 default_home_dashboard_path |->
                     "/var/lib/grafana/dashboards/github.json" ] ]

\* the entries as they are, owner included
RepoNamesQualified(repositories) == repositories

\* [repo.split("/")[-1] for repo in self.config.repositories]
RepoNames(repositories) ==
    [i \in 1..Len(repositories) |->
        LET parts == Split(repositories[i], "/") IN parts[Len(parts)]]

RepoRegex(repositories) ==
    <<"^", "(">> \o Join(RepoNames(repositories), <<"|">>) \o <<")", "$">>

OrgOptions(organizations) ==
    [i \in 1..Len(organizations) |->
        [selected |-> (i = 1), text |-> organizations[i],
         value |-> organizations[i]]]

FilterPayload(cfg) ==
    [ kind |-> "json",
      data |-> [ repo_regex |-> RepoRegex(cfg.repositories),
                 org_options |-> OrgOptions(cfg.organizations),
                 default_org |-> IF cfg.organizations # <<>>
                                 THEN cfg.organizations[1]
                                 ELSE <<"docker">>,
                 org_list |-> Join(cfg.organizations, <<",">>) ] ]

\* the positions of generate_all at which an artifact is written
ArtifactSteps == <<"datasource", "provider", "access", "ini", "filter">>

\* the payload generate_all writes to path p
PayloadOf(p, cfg) ==
    CASE p = P_Datasource -> DatasourcePayload(cfg)
      [] p = P_Provider -> ProviderPayload(cfg)
      [] p = P_Access -> AccessPayload(cfg)
      [] p = P_Ini -> IniPayload(cfg)
      [] p = P_Filter -> FilterPayload(cfg)

----------------------------------------------------------------------------
(* The generator: main(), load_config_from_env(), generate_all() *)

\* what an exception leaves behind: under main() the except clause prints it
\* and returns 1; a caller of the library sees it propagate
Raise(step, who) ==
    /\ pc' = "failed"
    /\ error' = step
    /\ exitCode' = IF who = "main" THEN 1 ELSE -1

\* config = load_config_from_env(), from main() or from a caller
LoadConfig(who) ==
    /\ pc = "idle"
    /\ entry' = who
    /\ LET loaded == LoadEnvFile(envFile, environ)
       IN  /\ environ' = loaded.env
           /\ \/ /\ loaded.raised \/ ConfigError(loaded.env)
                 /\ Raise("load", who)
                 /\ UNCHANGED <<config, runs>>
              \/ /\ ~loaded.raised
                 /\ ~ConfigError(loaded.env)
                 /\ \E orgs \in Orderings(OwnerSet(
                        ParseRepositories(Getenv(loaded.env, K_REPOS, <<>>)))) :
                        config' = <<EnvConfig(loaded.env, orgs)>>
                 /\ pc' = "mkdir"
                 /\ runs' = 1
                 /\ UNCHANGED <<error, exitCode>>
    /\ UNCHANGED <<envFile, procEnv, fault, dirs, files, pre>>

MainStart == LoadConfig("main")

LibLoad == LoadConfig("lib")

\* GrafanaProvisioningGenerator(GrafanaConfig(...)) built by a caller
LibConstruct ==
    /\ pc = "idle"
    /\ entry' = "lib"
    /\ \E c \in DirectConfigs : config' = <<c>>
    /\ pc' = "mkdir"
    /\ runs' = 1
    /\ UNCHANGED <<envFile, procEnv, fault, dirs, files, environ, error,
                   exitCode, pre>>

\* directory creation that swallows the failure of a mkdir and goes on
CreateDirectoriesLenient ==
    /\ pc = "mkdir"
    /\ dirs' = dirs \cup (AllDirs \ {fault.at})
    /\ pc' = "datasource"
    /\ UNCHANGED <<error, exitCode>>
    /\ UNCHANGED <<envFile, procEnv, fault, files, environ, config, entry,
                   runs, pre>>

\* _create_directories: mkdir(parents=True, exist_ok=True) in the order of
\* the list; the first mkdir that fails raises and the later ones never run.
\* parents=True makes the missing parent before the directory itself, so a
\* directory of the list that cannot be made leaves "provisioning" behind;
\* when "provisioning" itself cannot be made nothing is left
CreateDirectories ==
    /\ pc = "mkdir"
    /\ \/ /\ fault.kind = "mkdir"
          /\ IF fault.at = "provisioning"
             THEN dirs' = dirs
             ELSE LET k == CHOOSE i \in 1..Len(DirOrder) : DirOrder[i] = fault.at
                  IN  dirs' = dirs \cup {DirOrder[i] : i \in 1..(k - 1)}
                                  \cup {"provisioning"}
          /\ Raise("mkdir", entry)
       \/ /\ fault.kind # "mkdir"
          /\ dirs' = dirs \cup AllDirs
          /\ pc' = "datasource"
          /\ UNCHANGED <<error, exitCode>>
    /\ UNCHANGED <<envFile, procEnv, fault, files, environ, config, entry,
                   runs, pre>>

\* one generate_* method: open the path for writing and dump the payload;
\* an open() that fails raises out of generate_all
Generate(step, path, payload, next) ==
    /\ pc = step
    /\ \/ /\ fault = [kind |-> "write", at |-> path]
          /\ Raise(step, entry)
          /\ UNCHANGED files
       \/ /\ fault # [kind |-> "write", at |-> path]
          /\ files' = WriteFile(files, path, payload)
          /\ pc' = next
          /\ error' = error
          /\ exitCode' = IF next = "done" /\ entry = "main" THEN 0 ELSE exitCode
    /\ UNCHANGED <<envFile, procEnv, fault, dirs, environ, config, entry,
                   runs, pre>>

\* the first generator step writing the third artifact
GenerateOutOfTurn ==
    Generate("datasource", P_Access, AccessPayload(config[1]), "provider")

GenerateDatasourceConfig ==
    Generate("datasource", P_Datasource, DatasourcePayload(config[1]), "provider")

GenerateDashboardConfig ==
    Generate("provider", P_Provider, ProviderPayload(config[1]), "access")

GenerateAccessControlConfig ==
    Generate("access", P_Access, AccessPayload(config[1]), "ini")

GenerateGrafanaIni ==
    Generate("ini", P_Ini, IniPayload(config[1]), "filter")

UpdateDashboardTemplates ==
    Generate("filter", P_Filter, FilterPayload(config[1]), "done")

\* a caller invokes generate_all() again on the same generator object
GenerateAgain ==
    /\ entry = "lib"
    /\ pc \in {"done", "failed"}
    /\ config # <<>>
    /\ runs < MaxRuns
    /\ pc' = "mkdir"
    /\ runs' = runs + 1
    /\ error' = "none"
    /\ UNCHANGED <<envFile, procEnv, fault, dirs, files, environ, config,
                   entry, exitCode, pre>>

GenerateAll ==
    \/ CreateDirectories
    \/ GenerateDatasourceConfig
    \/ GenerateDashboardConfig
    \/ GenerateAccessControlConfig
    \/ GenerateGrafanaIni
    \/ UpdateDashboardTemplates

----------------------------------------------------------------------------
(* The validator's world *)

Malformed == [kind |-> "malformed"]

\* the .env of a healthy deployment, as interactive_setup.py writes it
HealthyEnv ==
    [ state |-> "ok",
      lines |-> << L_Comment, L_Token,
                   L_ReposQuoted(<<"a", "/", "x", ",", " ", "b", "/", "y">>),
                   L_Url, L_Domain, L_NoEnforce >> ]

\* the config the generator derives from HealthyEnv
HealthyConfig ==
    EnvConfig(LoadEnvFile(HealthyEnv, NoEnv).env, << <<"a">>, <<"b">> >>)

\* dashboards/github.json of a healthy deployment
HealthyDashboard ==
    [ state |-> "ok",
      vars |-> << [name |-> "organization", regex |-> <<>>],
                  [name |-> "repository", regex |-> <<"^", "(", "x", ")", "$">>] >>,
      titles |-> << <<"Open", " ", "Issues">>, <<"Merged", " ", "Pull Requests">> >>,
      time |-> {"from", "to"} ]

NoDashboard == [state |-> "absent", vars |-> <<>>, titles |-> <<>>, time |-> {}]

FactNames ==
    {"env", "ghDash", "orgDash", "composeFile", "composeAnon", "dockerValid",
     "scriptGenerate", "scriptUpdate", "scriptSetup", "health", "root",
     "customDash"} \cup Artifacts

\* a healthy deployment: everything generated, the service up
HealthyWorld ==
    [n \in FactNames |->
        CASE n = "env" -> HealthyEnv
          [] n = "ghDash" -> HealthyDashboard
          [] n \in {"health", "root"} -> "200"
          [] n = "customDash" -> 0
          [] n \in Artifacts -> PayloadOf(n, HealthyConfig)
          [] OTHER -> TRUE]

\* the other values each fact can take
Alternatives(n) ==
    CASE n = "env" ->
            { [state |-> "absent", lines |-> <<>>],
              [state |-> "unreadable", lines |-> <<>>],
              [state |-> "ok", lines |-> <<L_Token, L_Repos(<<"a", "/", "x">>)>>],
              [state |-> "ok", lines |-> <<L_Token>>],
              [state |-> "ok", lines |-> <<L_Token, L_Repos(<<"a", ",", "b">>)>>],
              [state |-> "ok", lines |->
                  <<L_Token, L_Repos(<<"a", "/", "x", ",", ",", "a", "/", "y">>)>>] }
      [] n = "ghDash" ->
            { NoDashboard,
              [NoDashboard EXCEPT !.state = "malformed"],
              [HealthyDashboard EXCEPT
                  !.vars = << [name |-> "repository", regex |-> <<>>] >>],
              [HealthyDashboard EXCEPT
                  !.titles = << <<"Open", " ", "Issues">>, <<"Stars">> >>,
                  !.time = {"from"}],
              [HealthyDashboard EXCEPT
                  !.titles = << <<"Commits">>, <<"Releases">>, <<"Sprint">>,
                                <<"Issues", " ", "PRs">> >>],
              [HealthyDashboard EXCEPT
                  !.titles = << <<"Open", " ", "Issues">>, <<"Sprint">> >>],
              [HealthyDashboard EXCEPT
                  !.titles = << <<"Issues", " ", "Commits">> >>] }
      [] n \in {"health", "root"} -> {"500", "timeout", "refused"}
      [] n = "customDash" -> {1}
      [] n = P_Datasource ->
            { Absent, Malformed, Foreign,
              [kind |-> "yaml",
               data |-> [apiVersion |-> 1,
                         datasources |-> << [name |-> "Prometheus",
                                             type |-> "prometheus"] >>]] }
      [] n = P_Filter ->
            { Absent, Malformed, Foreign,
              [kind |-> "json",
               data |-> [FilterPayload(HealthyConfig).data EXCEPT
                            !.repo_regex = <<>>]] }
      [] n = P_Ini -> {Absent, Foreign}
      [] n \in {P_Provider, P_Access} -> {Absent}
      [] OTHER -> {FALSE}

Defects == UNION {{<<n, v>> : v \in Alternatives(n)} : n \in FactNames}

RECURSIVE ApplyDefects(_, _)
ApplyDefects(w, q) ==
    IF q = <<>> THEN w
    ELSE ApplyDefects([w EXCEPT ![Head(q)[1]] = Head(q)[2]], Tail(q))

ValWorlds == {ApplyDefects(HealthyWorld, q) : q \in SeqsUpTo(Defects, MaxDefects)}

WorldFacts ==
    {"ghDash", "orgDash", "composeFile", "composeAnon", "dockerValid",
     "scriptGenerate", "scriptUpdate", "scriptSetup", "health", "root",
     "customDash"}

----------------------------------------------------------------------------
(* The validator's helpers *)

\* the first line of .env that starts with key=, or <<>>
RECURSIVE FirstLineWith(_, _)
FirstLineWith(lines, key) ==
    IF lines = <<>> THEN <<>>
    ELSE IF StartsWith(Head(lines), key \o <<"=">>) THEN <<Head(lines)>>
    ELSE FirstLineWith(Tail(lines), key)

\* open(".env") raises something other than FileNotFoundError
EnvReadRaises(file) == file.state = "unreadable"

\* _get_grafana_url
GetGrafanaUrl(file) ==
    LET hit == IF file.state = "ok" THEN FirstLineWith(file.lines, K_URL) ELSE <<>>
    IN  IF hit = <<>> THEN DefaultUrl
        ELSE Strip(Split1(hit[1], "=")[2])

\* [x for x in s if x.strip()] after stripping each
RECURSIVE NonEmptyStripped(_)
NonEmptyStripped(parts) ==
    IF parts = <<>> THEN <<>>
    ELSE (IF Strip(Head(parts)) # <<>> THEN <<Strip(Head(parts))>> ELSE <<>>)
         \o NonEmptyStripped(Tail(parts))

\* _get_configured_repositories, when open(".env") does not raise
GetConfiguredRepositories(file) ==
    LET hit == IF file.state = "ok" THEN FirstLineWith(file.lines, K_REPOS) ELSE <<>>
    IN  IF hit = <<>> THEN <<>>
        ELSE NonEmptyStripped(
                 Split(StripChars(Strip(Split1(hit[1], "=")[2]), Quotes), ","))

\* set(repo.split("/")[0] for repo in repos if "/" in repo)
ConfiguredOrganizationSet(file) ==
    {Split(r, "/")[1] : r \in {x \in Range(GetConfiguredRepositories(file)) :
                                  IndexOf(x, "/") # 0}}

\* the orders list(set(S)) can give S in this process: the one it gave
\* before, or any when the set is built for the first time
ListOfSet(S, memo) == IF S \in DOMAIN memo THEN {memo[S]} ELSE Orderings(S)

Remember(memo, S, order) ==
    [T \in (DOMAIN memo) \cup {S} |-> IF T = S THEN order ELSE memo[T]]

\* requests.get(...) under try/except: True only on status 200
ProbeOk(answer) == answer = "200"

\* _check_datasource_config
CheckDatasourceConfig(fs) ==
    LET c == fs[P_Datasource]
    IN  /\ Exists(c)
        /\ c.kind = "yaml"
        /\ \E i \in 1..Len(c.data.datasources) :
               c.data.datasources[i].type = "grafana-github-datasource"

\* _check_default_dashboard
CheckDefaultDashboard(fs) ==
    LET c == fs[P_Ini]
    IN  /\ Exists(c)
        /\ c.kind = "ini"
        /\ "default_home_dashboard_path" \in DOMAIN c.data

\* _check_dashboard_filters
CheckDashboardFilters(fs) ==
    LET c == fs[P_Filter]
    IN  /\ Exists(c)
        /\ c.kind = "json"
        /\ "repo_regex" \in DOMAIN c.data
        /\ c.data.repo_regex # <<>>

\* the has_filters flag of _validate_fr03
HasFilters(dash) ==
    /\ dash.state = "ok"
    /\ \E i \in 1..Len(dash.vars) :
          /\ dash.vars[i].name = "repository"
          /\ \A j \in 1..(i - 1) : dash.vars[j].name # "repository"
          /\ dash.vars[i].regex # <<>>

\* the keywords a lower-cased symbol of a panel title holds as substrings
KeywordsIn(sym) ==
    CASE sym = "issues" -> {"issue"}
      [] sym = "pull requests" -> {"pull request"}
      [] sym = "prs" -> {"pr"}
      [] sym = "sprint" -> {"pr"}
      [] sym = "commits" -> {"commit"}
      [] sym = "releases" -> {"release"}
      [] OTHER -> {}

\* kw in title
TitleHas(title, kw) == \E i \in 1..Len(title) : kw \in KeywordsIn(title[i])

\* the if/elif chain of _check_available_metrics on one panel title
MetricOf(rawTitle) ==
    LET title == Lower(rawTitle)
    IN  IF TitleHas(title, "issue") THEN {<<"Issues">>}
        ELSE IF TitleHas(title, "pull request") \/ TitleHas(title, "pr")
             THEN {<<"Pull Requests">>}
        ELSE IF TitleHas(title, "commit") THEN {<<"Commits">>}
        ELSE IF TitleHas(title, "release") THEN {<<"Releases">>}
        ELSE {}

\* set(metrics) of _check_available_metrics
AvailableMetricSet(dash) ==
    IF dash.state = "ok"
    THEN UNION {MetricOf(dash.titles[i]) : i \in 1..Len(dash.titles)}
    ELSE {}

\* _check_historical_data_config
CheckHistoricalDataConfig(dash) ==
    dash.state = "ok" /\ {"from", "to"} \subseteq dash.time

----------------------------------------------------------------------------
(* The rules *)

D(text) == [text |-> text, n |-> 0, list |-> <<>>]
DN(text, n) == [text |-> text, n |-> n, list |-> <<>>]
DL(text, list) == [text |-> text, n |-> 0, list |-> list]

ValidationResult(id, description, status, details, category) ==
    [ requirement_id |-> id, description |-> description, status |-> status,
      details |-> details, category |-> category ]

\* the missing ones of a list of (name, present) pairs, in the list's order
RECURSIVE MissingOf(_)
MissingOf(pairs) ==
    IF pairs = <<>> THEN <<>>
    ELSE (IF Head(pairs)[2] THEN <<>> ELSE <<Head(pairs)[1]>>)
         \o MissingOf(Tail(pairs))

\* the rule with the health probe among its conditions
ResultFR01Probed(file, fs, w) ==
    LET dashboards_exist == w.ghDash.state # "absent" /\ w.orgDash
        config_exists == Exists(fs[P_Provider])
    IN  ValidationResult("FR01",
            "Pre-configured dashboards to monitor GitHub activities",
            dashboards_exist /\ config_exists /\ ProbeOk(w.health),
            << IF dashboards_exist THEN D("Dashboards found")
                                   ELSE D("Dashboards not found"),
               IF config_exists THEN D("Provisioning configuration present")
                                ELSE D("Provisioning configuration missing"),
               IF ProbeOk(w.health) THEN D("Grafana responding")
                                    ELSE D("Grafana is not running") >>,
            "FR")

ResultFR01(file, fs, w) ==
    LET dashboards_exist == w.ghDash.state # "absent" /\ w.orgDash
        config_exists == Exists(fs[P_Provider])
    IN  ValidationResult("FR01",
            "Pre-configured dashboards to monitor GitHub activities",
            dashboards_exist /\ config_exists,
            << IF dashboards_exist THEN D("Dashboards found")
                                   ELSE D("Dashboards not found"),
               IF config_exists THEN D("Provisioning configuration present")
                                ELSE D("Provisioning configuration missing"),
               IF ProbeOk(w.health) THEN D("Grafana responding")
                                    ELSE D("Grafana is not running") >>,
            "FR")

ResultFR02(file, fs, w, orgs) ==
    LET repos == GetConfiguredRepositories(file)
    IN  ValidationResult("FR02",
            "View statistics from multiple repositories",
            Len(repos) > 1 /\ Len(orgs) >= 1 /\ w.orgDash,
            << IF Len(repos) > 1
               THEN DN("Multiple repositories configured", Len(repos))
               ELSE D("Need to configure multiple repositories"),
               IF orgs # <<>> THEN DL("Organizations detected", orgs)
                              ELSE D("No organizations detected"),
               IF w.orgDash THEN D("Organization dashboard present")
                            ELSE D("Organization dashboard missing") >>,
            "FR")

\* the rule with the filter configuration file among its conditions
ResultFR03WithFilterFile(file, fs, w) ==
    LET access_exists == Exists(fs[P_Access])
        has_filters == HasFilters(w.ghDash)
    IN  ValidationResult("FR03",
            "Filter access to displayed repositories",
            access_exists /\ has_filters /\ Exists(fs[P_Filter]),
            << IF access_exists THEN D("Access control configured")
                                ELSE D("Access control not configured"),
               IF has_filters THEN D("Repository filters configured")
                              ELSE D("Repository filters not found"),
               IF Exists(fs[P_Filter]) THEN D("Filter configuration present")
                                       ELSE D("Filter configuration missing") >>,
            "FR")

ResultFR03(file, fs, w) ==
    LET access_exists == Exists(fs[P_Access])
        has_filters == HasFilters(w.ghDash)
    IN  ValidationResult("FR03",
            "Filter access to displayed repositories",
            access_exists /\ has_filters,
            << IF access_exists THEN D("Access control configured")
                                ELSE D("Access control not configured"),
               IF has_filters THEN D("Repository filters configured")
                              ELSE D("Repository filters not found"),
               IF Exists(fs[P_Filter]) THEN D("Filter configuration present")
                                       ELSE D("Filter configuration missing") >>,
            "FR")

ResultEPIC01(file, fs, w) ==
    LET essential == << << <<"docker-compose.yml">>, w.composeFile >>,
                        << <<P_Datasource>>, Exists(fs[P_Datasource]) >>,
                        << <<P_Ini>>, Exists(fs[P_Ini]) >>,
                        << <<".env">>, file.state # "absent" >> >>
        files_exist == MissingOf(essential) = <<>>
        datasource_config == CheckDatasourceConfig(fs)
    IN  ValidationResult("EPIC01",
            "Monitoring infrastructure set up",
            files_exist /\ w.dockerValid /\ datasource_config,
            << IF files_exist THEN D("Essential files present")
                              ELSE DL("Missing files", MissingOf(essential)),
               IF w.dockerValid THEN D("Docker Compose valid")
                                ELSE D("Docker Compose invalid"),
               IF datasource_config THEN D("GitHub datasource configured")
                                    ELSE D("GitHub datasource not configured") >>,
            "EPIC")

ResultEPIC02(file, fs, w) ==
    LET scripts == << << <<"generate_provisioning.py">>, w.scriptGenerate >>,
                      << <<"update_dashboards.py">>, w.scriptUpdate >>,
                      << <<"interactive_setup.py">>, w.scriptSetup >> >>
        scripts_exist == MissingOf(scripts) = <<>>
        custom_config == Exists(fs[P_Filter])
    IN  ValidationResult("EPIC02",
            "Filtering and custom visualization implemented",
            scripts_exist /\ custom_config,
            << IF scripts_exist THEN D("Customization scripts present")
                                ELSE DL("Missing scripts", MissingOf(scripts)),
               IF custom_config THEN D("Custom configuration generated")
                                ELSE D("Custom configuration not found"),
               IF w.customDash > 0
               THEN DN("Custom dashboards", w.customDash)
               ELSE D("No custom dashboards (optional)") >>,
            "EPIC")

ResultUS01(file, fs, w, url) ==
    LET accessible == ProbeOk(w.root)
        default_dashboard == CheckDefaultDashboard(fs)
    IN  ValidationResult("US01",
            "Ready-made dashboards to track activity",
            accessible /\ default_dashboard,
            << IF accessible THEN DL("Grafana accessible at", <<url>>)
                             ELSE DL("Grafana not accessible at", <<url>>),
               IF default_dashboard THEN D("Default dashboard configured")
                                    ELSE D("Default dashboard not configured"),
               IF w.composeFile /\ w.composeAnon
               THEN D("Anonymous access enabled")
               ELSE D("Anonymous access not enabled") >>,
            "US")

ResultUS02(file, fs, w) ==
    LET repos == GetConfiguredRepositories(file)
        has_repo_filter == Len(repos) > 0
        dashboard_filters == CheckDashboardFilters(fs)
    IN  ValidationResult("US02",
            "Repository filtering for administrator",
            has_repo_filter /\ dashboard_filters /\ w.scriptUpdate,
            << IF has_repo_filter
               THEN DN("Specific repositories configured", Len(repos))
               ELSE D("No specific repositories configured"),
               IF dashboard_filters THEN D("Filters applied in dashboards")
                                    ELSE D("Filters not applied in dashboards"),
               IF w.scriptUpdate THEN D("Update script available")
                                 ELSE D("Update script not found") >>,
            "US")

ResultUS03(file, fs, w, metrics) ==
    ValidationResult("US03",
        "Specific metrics for collaborators",
        Len(metrics) >= 2,
        << IF metrics # <<>> THEN DL("Available metrics", metrics)
                             ELSE D("Metrics not configured"),
           IF Len(metrics) >= 3 THEN D("Multiple metrics configured")
                                ELSE D("Insufficient metrics"),
           IF CheckHistoricalDataConfig(w.ghDash)
           THEN D("Historical data configured")
           ELSE D("Historical data depends on time") >>,
        "US")

----------------------------------------------------------------------------
(* The validator: main(), BacklogValidator, validate_all_requirements() *)

gvarsNoEnv == <<procEnv, fault, dirs, files, environ, config, entry, pc,
                error, exitCode, runs, pre>>

RuleOrder == <<"FR01", "FR02", "FR03", "EPIC01", "EPIC02", "US01", "US02", "US03">>

\* the position after rule id
NextRule(id) ==
    LET k == CHOOSE i \in 1..Len(RuleOrder) : RuleOrder[i] = id
    IN  IF k = Len(RuleOrder) THEN "report" ELSE RuleOrder[k + 1]

\* validator = BacklogValidator(): __init__ reads .env for the URL
Construct(who) ==
    /\ vpc = "idle"
    /\ ventry' = who
    /\ \/ /\ EnvReadRaises(envFile)
          /\ vpc' = "failed"
          /\ vexit' = IF who = "main" THEN 1 ELSE -1
          /\ UNCHANGED <<grafana_url, results>>
       \/ /\ ~EnvReadRaises(envFile)
          /\ grafana_url' = GetGrafanaUrl(envFile)
          /\ results' = <<>>
          /\ vpc' = "ready"
          /\ UNCHANGED vexit
    /\ UNCHANGED <<world, setOrder, report, prevReport, calls, raisedIn, stable>>
    /\ UNCHANGED <<envFile, gvarsNoEnv>>

ValidatorMain == Construct("main")

ValidatorLib == Construct("lib")

\* validate_all_requirements() is entered
BeginValidateAll ==
    /\ vpc = "ready"
    /\ vpc' = "FR01"
    /\ calls' = 1
    /\ stable' = TRUE
    /\ UNCHANGED <<world, setOrder, ventry, grafana_url, results, report,
                   prevReport, raisedIn, vexit>>
    /\ UNCHANGED <<envFile, gvarsNoEnv>>

\* a rule appends its result and the next rule follows
Appends(id, result) ==
    /\ results' = Append(results, result)
    /\ vpc' = NextRule(id)
    /\ UNCHANGED <<world, ventry, grafana_url, report, prevReport, calls,
                   raisedIn, vexit, stable>>
    /\ UNCHANGED <<envFile, gvarsNoEnv>>

\* an exception leaves a rule: nothing in validate_all_requirements catches
\* it; main() prints it and returns 1
RuleRaises(id) ==
    /\ vpc' = "raised"
    /\ raisedIn' = id
    /\ vexit' = IF ventry = "main" THEN 1 ELSE -1
    /\ UNCHANGED <<world, setOrder, ventry, grafana_url, results, report,
                   prevReport, calls, stable>>
    /\ UNCHANGED <<envFile, gvarsNoEnv>>

ValidateFR01 ==
    /\ vpc = "FR01"
    /\ Appends("FR01", ResultFR01(envFile, files, world))
    /\ UNCHANGED setOrder

ValidateFR02 ==
    /\ vpc = "FR02"
    /\ \/ /\ EnvReadRaises(envFile)
          /\ RuleRaises("FR02")
       \/ /\ ~EnvReadRaises(envFile)
          /\ \E orgs \in ListOfSet(ConfiguredOrganizationSet(envFile), setOrder) :
                /\ Appends("FR02", ResultFR02(envFile, files, world, orgs))
                /\ setOrder' = Remember(setOrder,
                                        ConfiguredOrganizationSet(envFile), orgs)

ValidateFR03 ==
    /\ vpc = "FR03"
    /\ Appends("FR03", ResultFR03(envFile, files, world))
    /\ UNCHANGED setOrder

ValidateEPIC01 ==
    /\ vpc = "EPIC01"
    /\ Appends("EPIC01", ResultEPIC01(envFile, files, world))
    /\ UNCHANGED setOrder

ValidateEPIC02 ==
    /\ vpc = "EPIC02"
    /\ Appends("EPIC02", ResultEPIC02(envFile, files, world))
    /\ UNCHANGED setOrder

ValidateUS01 ==
    /\ vpc = "US01"
    /\ Appends("US01", ResultUS01(envFile, files, world, grafana_url))
    /\ UNCHANGED setOrder

ValidateUS02 ==
    /\ vpc = "US02"
    /\ \/ /\ EnvReadRaises(envFile)
          /\ RuleRaises("US02")
       \/ /\ ~EnvReadRaises(envFile)
          /\ Appends("US02", ResultUS02(envFile, files, world))
          /\ UNCHANGED setOrder

ValidateUS03 ==
    /\ vpc = "US03"
    /\ \E metrics \in ListOfSet(AvailableMetricSet(world.ghDash), setOrder) :
          /\ Appends("US03", ResultUS03(envFile, files, world, metrics))
          /\ setOrder' = Remember(setOrder, AvailableMetricSet(world.ghDash),
                                  metrics)

\* [r for r in self.results if r.category == c]
OfCategory(rs, c) == LET Is(r) == r.category = c IN SelectSeq(rs, Is)

\* sum(1 for r in self.results if r.status)
PassedCount(rs) == LET Ok(r) == r.status IN Len(SelectSeq(rs, Ok))

\* the grouped results validate_all_requirements returns and the summary
\* _print_validation_report prints of self.results
ReportOf(rs) ==
    [ FR |-> OfCategory(rs, "FR"),
      EPIC |-> OfCategory(rs, "EPIC"),
      US |-> OfCategory(rs, "US"),
      total |-> Len(rs),
      passed |-> PassedCount(rs),
      failed |-> Len(rs) - PassedCount(rs) ]

\* a main() that returns 0 as soon as the run has completed
ReportAlwaysZero ==
    /\ vpc = "report"
    /\ report' = <<ReportOf(results)>>
    /\ vpc' = "returned"
    /\ vexit' = IF ventry = "main" THEN 0 ELSE -1
    /\ UNCHANGED <<world, setOrder, ventry, grafana_url, results, prevReport,
                   calls, raisedIn, stable>>
    /\ UNCHANGED <<envFile, gvarsNoEnv>>

\* the grouping, the printed report and the return; main() then returns
\* 0 if passed == total else 1
Report ==
    /\ vpc = "report"
    /\ report' = <<ReportOf(results)>>
    /\ vpc' = "returned"
    /\ vexit' = IF ventry = "main"
                THEN (IF PassedCount(results) = Len(results) THEN 0 ELSE 1)
                ELSE -1
    /\ UNCHANGED <<world, setOrder, ventry, grafana_url, results, prevReport,
                   calls, raisedIn, stable>>
    /\ UNCHANGED <<envFile, gvarsNoEnv>>

\* a caller invokes validate_all_requirements() again on the same validator
ValidateAgain ==
    /\ ventry = "lib"
    /\ vpc \in {"returned", "raised"}
    /\ calls < MaxCalls
    /\ vpc' = "FR01"
    /\ calls' = calls + 1
    /\ prevReport' = IF vpc = "returned" THEN report ELSE <<>>
    /\ report' = <<>>
    /\ raisedIn' = "none"
    /\ UNCHANGED <<world, setOrder, ventry, grafana_url, results, vexit, stable>>
    /\ UNCHANGED <<envFile, gvarsNoEnv>>

\* the world changes under a live validator: .env loses its read permission
ChmodEnv ==
    /\ vpc \in {"ready"} \cup Range(RuleOrder)
    /\ envFile.state = "ok"
    /\ envFile' = [envFile EXCEPT !.state = "unreadable"]
    /\ stable' = FALSE
    /\ UNCHANGED <<world, setOrder, ventry, vpc, grafana_url, results, report,
                   prevReport, calls, raisedIn, vexit>>
    /\ UNCHANGED gvarsNoEnv

ValidateAll ==
    \/ BeginValidateAll
    \/ ValidateFR01
    \/ ValidateFR02
    \/ ValidateFR03
    \/ ValidateEPIC01
    \/ ValidateEPIC02
    \/ ValidateUS01
    \/ ValidateUS02
    \/ ValidateUS03
    \/ Report

----------------------------------------------------------------------------
(* The interactive setup: main(), run_setup() of interactive_setup.py *)

\* symbols of the restricted character set [a-zA-Z0-9._-]
NameChars == {"a", "b", "c", "x", "y", "j", "t", "k"}

\* re.match(r"^[a-zA-Z0-9._-]+/[a-zA-Z0-9._-]+$", repo)
ValidateRepositoryFormat(repo) ==
    LET parts == Split(repo, "/")
    IN  /\ Len(parts) = 2
        /\ parts[1] # <<>>
        /\ parts[2] # <<>>
        /\ \A i \in 1..Len(repo) : repo[i] \in NameChars \cup {"/"}

\* a token of n characters
TokenOfLen(n) == [i \in 1..n |-> IF i % 2 = 1 THEN "t" ELSE "k"]

\* s[-6:]
Last6(s) == SubSeq(s, IF Len(s) > 6 THEN Len(s) - 5 ELSE 1, Len(s))

\* REPOS values the setup may find in its environment
SetupRepos ==
    { <<"b", "/", "y", ",", "a", "/", "x">>,
      <<"a", "/", "x", ",", "a", "/", "x">>,
      <<"a">>,
      <<",">> }

\* the environment the setup is started in
SetupEnvs ==
    {NoEnv}
    \cup {Setenv(NoEnv, K_TOKEN, TokenOfLen(n)) : n \in {2, 6, 7, 20}}
    \cup {Setenv(NoEnv, K_REPOS, r) : r \in SetupRepos}
    \cup {Setenv(Setenv(NoEnv, K_TOKEN, TokenOfLen(20)), K_REPOS, r) :
             r \in SetupRepos}

\* what the user types at a yes/no prompt
Answers == { <<" ", "y">>, <<"n">>, <<>> }
Yes == { <<"y">>, <<"yes">>, <<"s">>, <<"sim">> }
No == { <<"n">>, <<"no">>, <<"não">> }

\* what the user types at the token prompt
TypedTokens ==
    { <<>>, <<" ">>, TokenOfLen(19), TokenOfLen(20),
      <<" ">> \o TokenOfLen(21) \o <<" ">> }

\* what the user types at the repository prompt
TypedRepos ==
    { <<"done">>, <<>>, <<"a", "/", "x">>, <<" ", "a", "/", "y">>,
      <<"b", "/", "y">>, <<"a">>, <<"a", "/", "x", "/", "y">> }
Done == { <<"done">>, <<"finish">>, <<"end">>, <<>> }

\* what the user types at the server URL prompt
TypedUrls == { <<>>, <<"http://gh.example:3000">>, <<"gh.example">> }

\* "localhost" in server_url
HasLocalhost(url) == url = DefaultUrl

\* server_url.split("//")[1].split(":")[0]: <<the host>>, or <<>> when the
\* URL holds no "//" and the subscript raises IndexError
HostOf(url) ==
    IF url = <<"http://gh.example:3000">> THEN << <<"gh.example">> >> ELSE <<>>

NoSetup ==
    [ setup_mode |-> "", github_token |-> <<>>, repositories |-> <<>>,
      organizations |-> <<>>, server_url |-> <<>>, server_domain |-> <<>>,
      enforce_domain |-> TRUE ]

\* the rest of the state while the setup talks to the user
SetupFrame == UNCHANGED <<vvars, envFile, gvarsNoEnv>>

\* an input is rejected with a message and asked for again
Rejected ==
    /\ tries < MaxTries
    /\ tries' = tries + 1
    /\ UNCHANGED <<spc, setup, console, sexit>>

\* setup = InteractiveSetup(); setup.run_setup() prints its banner
SetupStart ==
    /\ spc = "idle"
    /\ spc' = "mode"
    /\ UNCHANGED <<setup, tries, console, sexit>>
    /\ SetupFrame

\* _choose_setup_mode: one input of its loop
ChooseSetupMode ==
    /\ spc = "mode"
    /\ \E choice \in {"1", "2", "3", "4"} :
          \/ /\ choice \in {"1", "2", "3"}
             /\ setup' = [setup EXCEPT !.setup_mode =
                             CASE choice = "1" -> "basic"
                               [] choice = "2" -> "advanced"
                               [] choice = "3" -> "enterprise"]
             /\ spc' = "token"
             /\ UNCHANGED <<tries, console, sexit>>
          \/ /\ choice = "4"
             /\ Rejected
    /\ SetupFrame

\* _get_github_token up to its first input(): a token found in the
\* environment is shown by its last six characters in the prompt
OfferExistingToken ==
    /\ spc = "token"
    /\ LET existing_token == Getenv(environ, K_TOKEN, <<>>)
       IN  \/ /\ existing_token = <<>>
              /\ spc' = "typing"
              /\ UNCHANGED console
           \/ /\ existing_token # <<>>
              /\ console' = Append(console,
                                   [ at |-> "prompt", token |-> existing_token,
                                     shown |-> Last6(existing_token) ])
              /\ spc' = "token_offered"
    /\ UNCHANGED <<setup, tries, sexit>>
    /\ SetupFrame

\* _get_github_token: the answer to "Use this one?"
AnswerExistingToken ==
    /\ spc = "token_offered"
    /\ \E use_existing \in Answers :
          IF Lower(Strip(use_existing)) \in Yes
          THEN /\ setup' = [setup EXCEPT !.github_token =
                                Getenv(environ, K_TOKEN, <<>>)]
               /\ spc' = "repos"
          ELSE /\ spc' = "typing"
               /\ UNCHANGED setup
    /\ UNCHANGED <<tries, console, sexit>>
    /\ SetupFrame

\* _get_github_token: one input of its loop; the format check only prints a
\* warning
TypeToken ==
    /\ spc = "typing"
    /\ \E typed \in TypedTokens :
          LET token == Strip(typed)
          IN  \/ /\ token = <<>> \/ Len(token) < 20
                 /\ Rejected
              \/ /\ Len(token) >= 20
                 /\ setup' = [setup EXCEPT !.github_token = token]
                 /\ spc' = "repos"
                 /\ UNCHANGED <<tries, console, sexit>>
    /\ SetupFrame

\* _get_repositories up to its loop: a REPOS value found in the environment
\* is shown and offered
OfferExistingRepos ==
    /\ spc = "repos"
    /\ LET existing_repos == Getenv(environ, K_REPOS, <<>>)
       IN  \/ /\ existing_repos = <<>>
              /\ spc' = "adding"
              /\ UNCHANGED setup
           \/ /\ existing_repos # <<>>
              /\ \E use_existing \in Answers :
                    IF Lower(Strip(use_existing)) \in Yes
                    THEN /\ setup' = [setup EXCEPT !.repositories =
                                         ParseRepositories(existing_repos)]
                         /\ spc' = "orgs"
                    ELSE /\ spc' = "adding"
                         /\ UNCHANGED setup
    /\ UNCHANGED <<tries, console, sexit>>
    /\ SetupFrame

\* _get_repositories: one input of its loop
AddRepository ==
    /\ spc = "adding"
    /\ \E typed \in TypedRepos :
          LET repo == Strip(typed)
          IN  \/ /\ Lower(repo) \in Done
                 /\ setup.repositories # <<>>
                 /\ spc' = "orgs"
                 /\ UNCHANGED <<setup, tries, console, sexit>>
              \/ /\ \/ Lower(repo) \in Done /\ setup.repositories = <<>>
                    \/ Lower(repo) \notin Done /\ ~ValidateRepositoryFormat(repo)
                    \/ /\ Lower(repo) \notin Done
                       /\ ValidateRepositoryFormat(repo)
                       /\ repo \in Range(setup.repositories)
                 /\ Rejected
              \/ /\ Lower(repo) \notin Done
                 /\ ValidateRepositoryFormat(repo)
                 /\ repo \notin Range(setup.repositories)
                 /\ Len(setup.repositories) < MaxRepos
                 /\ setup' = [setup EXCEPT !.repositories = Append(@, repo)]
                 /\ UNCHANGED <<spc, tries, console, sexit>>
    /\ SetupFrame

\* _extract_organizations: list(set(repo.split("/")[0] for repo in ...))
ExtractOrganizations ==
    /\ spc = "orgs"
    /\ \E orgs \in Orderings(OwnerSet(setup.repositories)) :
          setup' = [setup EXCEPT !.organizations = orgs]
    /\ spc' = "server"
    /\ UNCHANGED <<tries, console, sexit>>
    /\ SetupFrame

\* _get_server_config: the defaults in basic mode, else the URL, the domain
\* and, in enterprise mode, the enforcement are asked for; a URL without
\* "localhost" and without "//" raises, and main() returns 1
GetServerConfig ==
    /\ spc = "server"
    /\ \/ /\ setup.setup_mode = "basic"
          /\ setup' = [setup EXCEPT !.server_url = DefaultUrl,
                                    !.server_domain = DefaultDomain,
                                    !.enforce_domain = TRUE]
          /\ spc' = "save"
          /\ UNCHANGED sexit
       \/ /\ setup.setup_mode # "basic"
          /\ \E typed \in TypedUrls, domain_in \in {<<>>, <<"gh.example">>},
                enforce_input \in {<<>>, <<"n">>} :
                LET server_url == IF Strip(typed) # <<>> THEN Strip(typed)
                                                        ELSE DefaultUrl
                IN  \/ /\ ~HasLocalhost(server_url)
                       /\ HostOf(server_url) = <<>>
                       /\ spc' = "failed"
                       /\ sexit' = 1
                       /\ UNCHANGED setup
                    \/ /\ HasLocalhost(server_url) \/ HostOf(server_url) # <<>>
                       /\ LET default_domain ==
                                  IF HasLocalhost(server_url) THEN DefaultDomain
                                  ELSE HostOf(server_url)[1]
                          IN  setup' = [setup EXCEPT
                                  !.server_url = server_url,
                                  !.server_domain =
                                      IF Strip(domain_in) # <<>>
                                      THEN Strip(domain_in) ELSE default_domain,
                                  !.enforce_domain =
                                      IF setup.setup_mode = "enterprise"
                                      THEN Lower(Strip(enforce_input)) \notin No
                                      ELSE TRUE]
                       /\ spc' = "save"
                       /\ UNCHANGED sexit
    /\ UNCHANGED <<tries, console>>
    /\ SetupFrame

\* the text _save_env_file writes, line by line
EnvContent(cfg) ==
    << <<"#", " ", "GitHub Dashboard Grafana Configuration">>,
       <<"#", " ", "Automatically generated on", " ", "timestamp">>,
       <<>>,
       <<"#", " ", "GitHub access token (required)">>,
       K_TOKEN \o <<"=">> \o cfg.github_token,
       <<>>,
       <<"#", " ", "Repositories to monitor (comma separated)">>,
       L_ReposQuoted(Join(cfg.repositories, <<",", " ">>)),
       <<>>,
       <<"#", " ", "Grafana server configurations">>,
       K_URL \o <<"=">> \o cfg.server_url,
       K_DOMAIN \o <<"=">> \o cfg.server_domain,
       K_ENFORCE \o <<"=", IF cfg.enforce_domain THEN "true" ELSE "false">>,
       <<>>,
       <<"#", " ", "Security configuration">>,
       <<"GF_AUTH_ANONYMOUS_ENABLED", "=", "true">>,
       <<"GF_AUTH_ANONYMOUS_ORG_ROLE", "=", "Viewer">>,
       <<"GF_AUTH_DISABLE_LOGIN_FORM", "=", "true">>,
       <<"GF_USERS_ALLOW_SIGN_UP", "=", "false">>,
       <<>>,
       <<"#", " ", "Configuration mode used">>,
       <<"SETUP_MODE", "=", cfg.setup_mode>> >>

\* _save_env_file: .env is replaced by the new text
SaveEnvFile ==
    /\ spc = "save"
    /\ envFile' = [state |-> "ok", lines |-> EnvContent(setup)]
    /\ spc' = "summary"
    /\ UNCHANGED <<setup, tries, console, sexit>>
    /\ UNCHANGED <<vvars, gvarsNoEnv>>

\* _show_summary: of the token it prints the last six characters
ShowSummary ==
    /\ spc = "summary"
    /\ console' = Append(console,
                         [ at |-> "summary", token |-> setup.github_token,
                           shown |-> Last6(setup.github_token) ])
    /\ spc' = "ask"
    /\ UNCHANGED <<setup, tries, sexit>>
    /\ SetupFrame

\* main() after run_setup: generation is offered; declined, main() returns 0
AskGenerate ==
    /\ spc = "ask"
    /\ \E auto_generate \in Answers :
          IF Lower(Strip(auto_generate)) \in No
          THEN spc' = "returned" /\ sexit' = 0
          ELSE spc' = "generating" /\ UNCHANGED sexit
    /\ UNCHANGED <<setup, tries, console>>
    /\ SetupFrame

\* generate_main() runs inside the setup process, on its environment and the
\* .env just saved; what it returns is not looked at
GenerateInSetup ==
    /\ spc = "generating"
    /\ MainStart \/ GenerateAll
    /\ UNCHANGED <<vvars, svars>>

\* update_main() of update_dashboards.py follows and main() returns 0, or 1
\* when update_main() raises
SetupReturns ==
    /\ spc = "generating"
    /\ pc \in {"done", "failed"}
    /\ spc' = "returned"
    /\ sexit' \in {0, 1}
    /\ UNCHANGED <<setup, tries, console>>
    /\ SetupFrame

\* Ctrl-C at a prompt: main() prints that the setup was cancelled, returns 1
Interrupt ==
    /\ spc \in {"mode", "token_offered", "typing", "repos", "adding", "server",
                "ask"}
    /\ spc = "repos" => Getenv(environ, K_REPOS, <<>>) # <<>>
    /\ spc = "server" => setup.setup_mode # "basic"
    /\ spc' = "cancelled"
    /\ sexit' = 1
    /\ UNCHANGED <<setup, tries, console>>
    /\ SetupFrame

RunSetup ==
    \/ ChooseSetupMode
    \/ OfferExistingToken
    \/ AnswerExistingToken
    \/ TypeToken
    \/ OfferExistingRepos
    \/ AddRepository
    \/ ExtractOrganizations
    \/ GetServerConfig
    \/ SaveEnvFile
    \/ ShowSummary

----------------------------------------------------------------------------
(* Specifications *)

\* file systems the generator may start in: nothing there yet, or the whole
\* layout there with content of another origin
InitFileSystems ==
    { [dirs |-> {}, files |-> [p \in Artifacts |-> Absent]],
      [dirs |-> AllDirs, files |-> [p \in Artifacts |-> Foreign]] }

SetupIdle ==
    /\ spc = "idle"
    /\ setup = NoSetup
    /\ tries = 0
    /\ console = <<>>
    /\ sexit = -1

ValIdle ==
    /\ setOrder = [S \in {} |-> <<>>]
    /\ ventry = "none"
    /\ vpc = "idle"
    /\ grafana_url = <<>>
    /\ results = <<>>
    /\ report = <<>>
    /\ prevReport = <<>>
    /\ calls = 0
    /\ raisedIn = "none"
    /\ vexit = -1
    /\ stable = FALSE

GenIdle ==
    /\ environ = procEnv
    /\ config = <<>>
    /\ entry = "none"
    /\ pc = "idle"
    /\ error = "none"
    /\ exitCode = -1
    /\ runs = 0
    /\ pre = [dirs |-> dirs, files |-> files]

\* a path that cannot be created as a directory is not one already
\* what the validator would find beside the generator's files in a directory
\* where no dashboard has been put yet
BareWorld ==
    [n \in WorldFacts |->
        CASE n = "ghDash" -> NoDashboard
          [] n = "orgDash" -> FALSE
          [] OTHER -> HealthyWorld[n]]

FaultFits == fault.kind = "mkdir" => fault.at \notin dirs

\* the generator program: python generate_provisioning.py
InitGen ==
    /\ envFile \in EnvFiles \cup {[state |-> "unreadable", lines |-> <<>>]}
    /\ procEnv \in ProcEnvs
    /\ fault \in Faults
    /\ \E fs \in InitFileSystems : dirs = fs.dirs /\ files = fs.files
    /\ FaultFits
    /\ GenIdle
    /\ world = BareWorld
    /\ ValIdle
    /\ SetupIdle

NextGen == (MainStart \/ GenerateAll) /\ UNCHANGED <<vvars, svars>>

SpecGen == InitGen /\ [][NextGen]_vars

\* the generator class used as a library
InitLib ==
    /\ envFile \in { [state |-> "absent", lines |-> <<>>],
                     [state |-> "ok", lines |->
                         <<L_Token, L_Repos(<<"b", "/", "y", ",", "a", "/", "x">>)>>] }
    /\ procEnv = NoEnv
    /\ fault \in Faults
    /\ \E fs \in InitFileSystems : dirs = fs.dirs /\ files = fs.files
    /\ FaultFits
    /\ GenIdle
    /\ world = BareWorld
    /\ ValIdle
    /\ SetupIdle

NextLib ==
    (LibLoad \/ LibConstruct \/ GenerateAll \/ GenerateAgain)
    /\ UNCHANGED <<vvars, svars>>

SpecLib == InitLib /\ [][NextLib]_vars

\* the validator program and the validator class used as a library, in a
\* deployment at most MaxDefects facts away from a healthy one
InitVal ==
    /\ \E w \in ValWorlds :
          /\ envFile = w["env"]
          /\ files = [p \in Artifacts |-> w[p]]
          /\ world = [n \in WorldFacts |-> w[n]]
    /\ procEnv = NoEnv
    /\ fault = NoFault
    /\ dirs = AllDirs
    /\ GenIdle
    /\ ValIdle
    /\ SetupIdle

NextVal ==
    (ValidatorMain \/ ValidatorLib \/ ValidateAll \/ ValidateAgain \/ ChmodEnv)
    /\ UNCHANGED svars

SpecVal == InitVal /\ [][NextVal]_vars

\* the setup program: python interactive_setup.py, in a directory where
\* nothing has been generated yet
InitSetup ==
    /\ envFile = [state |-> "absent", lines |-> <<>>]
    /\ procEnv \in SetupEnvs
    /\ fault = NoFault
    /\ dirs = {}
    /\ files = [p \in Artifacts |-> Absent]
    /\ GenIdle
    /\ world = BareWorld
    /\ ValIdle
    /\ SetupIdle

NextSetup ==
    SetupStart \/ RunSetup \/ AskGenerate \/ GenerateInSetup \/ SetupReturns
    \/ Interrupt

SpecSetup == InitSetup /\ [][NextSetup]_vars

\* a deployment: python generate_provisioning.py in a checkout that holds
\* the dashboards, the compose file, the scripts and a .env, then
\* python validate_backlog.py on what it generated
InitDeploy ==
    /\ envFile \in EnvFiles
    /\ procEnv = NoEnv
    /\ fault = NoFault
    /\ dirs = {"dashboards"}
    /\ files = [p \in Artifacts |-> Absent]
    /\ GenIdle
    /\ world = [n \in WorldFacts |-> HealthyWorld[n]]
    /\ ValIdle
    /\ SetupIdle

\* main() of generate_provisioning.py
DeployGenerate == (MainStart \/ GenerateAll) /\ UNCHANGED <<vvars, svars>>

\* main() of validate_backlog.py, started once the generator has returned 0
DeployValidate ==
    /\ pc = "done"
    /\ ValidatorMain \/ ValidateAll
    /\ UNCHANGED svars

NextDeploy == DeployGenerate \/ DeployValidate

SpecDeploy == InitDeploy /\ [][NextDeploy]_vars

----------------------------------------------------------------------------
(* Properties of the generator *)

\* the owners of a repository list in the order of their first appearance
RECURSIVE FirstAppearance(_, _)
FirstAppearance(repositories, seen) ==
    IF repositories = <<>> THEN <<>>
    ELSE LET o == Split(Head(repositories), "/")[1]
         IN  IF o \in seen THEN FirstAppearance(Tail(repositories), seen)
             ELSE <<o>> \o FirstAppearance(Tail(repositories), seen \cup {o})

Untouched == dirs = pre.dirs /\ files = pre.files

\* C4: when one artifact generator fails after the directories were made, the
\* run, once over, has written every artifact that comes after the failed one
\* and has kept those written before it.
C4_ContinuesPastArtifactFailure ==
    (pc = "failed" /\ \E k \in 1..5 : error = ArtifactSteps[k]) =>
        LET k == CHOOSE i \in 1..5 : error = ArtifactSteps[i]
        IN  \A j \in 1..5 :
                j # k => files[ArtifactOrder[j]]
                            = PayloadOf(ArtifactOrder[j], config[1])

\* C5: a generator holding a config whose repository list is empty never
\* writes anything and never completes.
C5_EmptyRepositoriesRejected ==
    (config # <<>> /\ config[1].repositories = <<>>) =>
        (files = pre.files /\ pc # "done")

\* C6: when the REPOS value main() reads holds a malformed entry, main()
\* returns non-zero and neither a directory nor a file has been written.
C6_MalformedEntryIsFatal ==
    (/\ entry = "main"
     /\ pc # "idle"
     /\ \E r \in Range(ParseRepositories(Getenv(environ, K_REPOS, <<>>))) :
            ~ValidateRepositoryFormat(r)) =>
        (pc = "failed" /\ exitCode = 1 /\ Untouched)

\* C7: when, after .env is read, the token or the repository list is missing
\* or empty, main() has returned 1 and no directory and no artifact file has
\* been created or modified.
C7_MissingConfigTouchesNothing ==
    (/\ entry = "main"
     /\ pc # "idle"
     /\ \/ Getenv(environ, K_TOKEN, <<>>) = <<>>
        \/ Getenv(environ, K_REPOS, <<>>) = <<>>) =>
        (pc = "failed" /\ error = "load" /\ exitCode = 1 /\ Untouched)

\* C7 witness: a run with a token and no repository list that has ended
C7_Witness ==
    /\ entry = "main"
    /\ pc = "failed"
    /\ envFile.state = "ok"
    /\ Getenv(environ, K_TOKEN, <<>>) = Token
    /\ Getenv(environ, K_REPOS, <<>>) = <<>>
    /\ exitCode = 1

\* C8: the organization options of a filter-parameters artifact this run
\* wrote list the owners in the order of their first appearance in the
\* repository list, the first one selected and no other, and default_org is
\* that first one.
C8_OrgOptionsInInsertionOrder ==
    (pc = "done" /\ entry = "main") =>
        LET d == files[P_Filter].data
            owners == FirstAppearance(config[1].repositories, {})
        IN  /\ Len(d.org_options) = Len(owners)
            /\ \A i \in 1..Len(owners) :
                   /\ d.org_options[i].text = owners[i]
                   /\ d.org_options[i].value = owners[i]
                   /\ d.org_options[i].selected = (i = 1)
            /\ d.default_org = owners[1]

\* C9: whenever artifacts are derived from a config, its organizations are
\* the distinct owner prefixes of its repositories, each once.
C9_OrganizationsAreTheOwners ==
    (config # <<>> /\ pc \in Range(ArtifactSteps) \cup {"done"}) =>
        /\ Range(config[1].organizations) = OwnerSet(config[1].repositories)
        /\ Len(config[1].organizations)
              = Cardinality(Range(config[1].organizations))

\* C10: a second generate_all() on the same config changes no artifact file,
\* and no step of any run removes a file that existed.
C10_RegenerationIsIdempotent ==
    [][ /\ (runs >= 2 /\ runs' = runs) => files' = files
        /\ \A p \in Artifacts : Exists(files[p]) => Exists(files'[p]) ]_vars

\* C10 witness: a second run has completed over files that held other content
\* before the first
C10_Witness ==
    /\ runs = 2
    /\ pc = "done"
    /\ pre.files[P_Filter] = Foreign
    /\ \A p \in Artifacts : files[p] = PayloadOf(p, config[1])

\* the part of a well-formed entry after the owner
BareName(repo) == SubSeq(repo, IndexOf(repo, "/") + 1, Len(repo))

\* rx is ^( ... )$
AnchoredGroup(rx) ==
    /\ Len(rx) >= 4
    /\ SubSeq(rx, 1, 2) = <<"^", "(">>
    /\ SubSeq(rx, Len(rx) - 1, Len(rx)) = <<")", "$">>

\* the alternatives between the parentheses of ^( ... )$
RegexAlternatives(rx) == Split(SubSeq(rx, 3, Len(rx) - 2), "|")

\* C11: when main() has completed on a repository list of well-formed
\* entries, repo_regex of the filter-parameters artifact is ^(n1|...|nk)$, its
\* alternatives are the bare names of the repositories in the order of the
\* list, and none of them holds an owner.
C11_RegexHoldsTheBareNames ==
    (/\ entry = "main"
     /\ pc = "done"
     /\ \A r \in Range(config[1].repositories) : ValidateRepositoryFormat(r)) =>
        LET rx == files[P_Filter].data.repo_regex
            repos == config[1].repositories
        IN  /\ AnchoredGroup(rx)
            /\ RegexAlternatives(rx)
                  = [i \in 1..Len(repos) |-> BareName(repos[i])]
            /\ \A i \in 1..Len(RegexAlternatives(rx)) :
                   IndexOf(RegexAlternatives(rx)[i], "/") = 0

\* C11 witness: a completed run on two repositories of different owners
C11_Witness ==
    /\ entry = "main"
    /\ pc = "done"
    /\ config[1].repositories = << <<"a", "/", "x">>, <<"b", "/", "y">> >>
    /\ files[P_Filter].data.repo_regex = <<"^", "(", "x", "|", "y", ")", "$">>

\* C12: every step that writes an artifact finds the directory skeleton in
\* place, every artifact before it in the order datasource, provider,
\* access-control, server template, filter-params already written by this run
\* and every artifact after it not yet written.
C12_FixedOrder ==
    [][ \A k \in 1..Len(ArtifactOrder) :
          files'[ArtifactOrder[k]] # files[ArtifactOrder[k]] =>
             /\ Dirs \subseteq dirs
             /\ \A j \in 1..(k - 1) :
                    files[ArtifactOrder[j]]
                       = PayloadOf(ArtifactOrder[j], config[1])
             /\ \A j \in (k + 1)..Len(ArtifactOrder) :
                    files[ArtifactOrder[j]] = pre.files[ArtifactOrder[j]] ]_vars

\* C12 witness: a run that began without any directory has written the last
\* artifact
C12_Witness ==
    /\ entry = "main"
    /\ pc = "done"
    /\ pre.dirs = {}
    /\ Dirs \subseteq dirs
    /\ \A p \in Artifacts : pre.files[p] = Absent /\ Exists(files[p])

\* C13: when a directory of the skeleton cannot be created, the run of main()
\* that got as far as creating directories has failed there, has returned 1
\* and has left every artifact file as it was.
C13_MkdirFailureIsFatal ==
    (/\ entry = "main"
     /\ fault.kind = "mkdir"
     /\ config # <<>>
     /\ pc # "mkdir") =>
        (pc = "failed" /\ error = "mkdir" /\ exitCode = 1 /\ files = pre.files)

\* C13 witness: the third directory could not be created, the two before it
\* were
C13_Witness ==
    /\ entry = "main"
    /\ error = "mkdir"
    /\ fault.at = "provisioning/access-control"
    /\ "provisioning/dashboards" \in dirs
    /\ exitCode = 1

\* token values other than the one a config holds
OtherTokens == { <<"k", "t">>, <<"t">>, <<"t", "k", "t">> }

\* C14: the artifacts of a completed generate_all() are those the same config
\* with any other token would have produced, and the datasource holds the
\* placeholder reference.
C14_TokenNeverInArtifacts ==
    (config # <<>> /\ pc = "done") =>
        /\ \A tk \in OtherTokens : \A p \in Artifacts :
               files[p] = PayloadOf(p, [config[1] EXCEPT !.github_token = tk])
        /\ files[P_Datasource].data.datasources[1].secureJsonData.accessToken
              = "${GITHUB_TOKEN}"

\* C14 witness: a caller's config with a token has been generated from
C14_Witness ==
    /\ entry = "lib"
    /\ pc = "done"
    /\ config[1].github_token = Token
    /\ runs = 1
    /\ files[P_Datasource] = DatasourcePayload(config[1])

\* C21: once the generator has accepted a .env and the validator has judged
\* the multi-repository rule on the same file, the repository list and the
\* organization set the validator derived are those of the generator's
\* config, and the rule counted that many repositories.
C21_ValidatorSeesTheGeneratorsConfig ==
    (/\ pc = "done"
     /\ Len(results) >= 2
     /\ results[2].requirement_id = "FR02") =>
        /\ GetConfiguredRepositories(envFile) = config[1].repositories
        /\ ConfiguredOrganizationSet(envFile) = Range(config[1].organizations)
        /\ results[2].details[1].n
              = (IF Len(config[1].repositories) > 1
                 THEN Len(config[1].repositories) ELSE 0)

----------------------------------------------------------------------------
(* Properties of the interactive setup *)

\* C15: whatever the setup prints of a token, at the token prompt or in the
\* summary, is shorter than the token and so never the whole of it.
C15_TokenNeverEchoedInFull ==
    \A i \in 1..Len(console) :
        /\ console[i].shown # console[i].token
        /\ Len(console[i].shown) < Len(console[i].token)

\* C22: once the repository step of the setup has returned, its list is not
\* empty, holds no entry twice and holds only entries of the form owner/name
\* over the restricted character set; the REPOS line of the .env the setup
\* then saves is that list.
C22_SetupRepositoriesAreValid ==
    /\ spc \in {"orgs", "server", "save", "summary", "ask", "generating",
                "returned"} =>
          /\ setup.repositories # <<>>
          /\ \A i, j \in 1..Len(setup.repositories) :
                 i # j => setup.repositories[i] # setup.repositories[j]
          /\ \A i \in 1..Len(setup.repositories) :
                 ValidateRepositoryFormat(setup.repositories[i])
    /\ spc \in {"summary", "ask"} =>
          \E k \in 1..Len(envFile.lines) :
              envFile.lines[k]
                 = L_ReposQuoted(Join(setup.repositories, <<",", " ">>))

----------------------------------------------------------------------------
(* Properties of the validator *)

\* the results of a report in the order FR, EPIC, US of its groups
Flat(rep) == rep.FR \o rep.EPIC \o rep.US

Ids(rs) == [i \in 1..Len(rs) |-> rs[i].requirement_id]

\* C1: when a rule's check has raised, validate_all_requirements does not
\* raise: it returns a report with a failed result for that rule and a result
\* for each of the other seven rules.
C1_FaultIsolation ==
    raisedIn # "none" =>
        /\ vpc # "raised"
        /\ vpc = "returned" =>
              /\ Range(Ids(Flat(report[1]))) = Range(RuleOrder)
              /\ \A i \in 1..Len(Flat(report[1])) :
                     Flat(report[1])[i].requirement_id = raisedIn
                        => ~Flat(report[1])[i].status

\* C2: a second invocation on the same validator, the world unchanged since
\* the invocation before began, returns the report that one returned.
C2_RuleDeterminism ==
    (vpc = "returned" /\ prevReport # <<>> /\ stable) => report = prevReport

\* C3: a returned report holds one result per rule, in the order FR01, FR02,
\* FR03, EPIC01, EPIC02, US01, US02, US03, and no step changes a result that
\* was appended.
C3_OneResultPerRuleInOrder ==
    /\ [](vpc = "returned" => Ids(Flat(report[1])) = RuleOrder)
    /\ [][\A i \in 1..Len(results) :
             Len(results') >= i /\ results'[i] = results[i]]_vars

\* C16: once the validator's main() has returned, its status is 0 or 1, and
\* it is 0 exactly when the run completed with a result for each rule and
\* every one of them passed.
C16_ExitZeroIffAllPassed ==
    (ventry = "main" /\ vpc \in {"returned", "raised", "failed"}) =>
        /\ vexit \in {0, 1}
        /\ vexit = 0 <=> /\ vpc = "returned"
                         /\ Ids(results) = RuleOrder
                         /\ \A i \in 1..Len(results) : results[i].status

\* C16 witness: a completed run of main() in which one rule alone failed
C16_Witness ==
    /\ ventry = "main"
    /\ vpc = "returned"
    /\ Len(results) = 8
    /\ PassedCount(results) = 7
    /\ vexit = 1

\* C17: every FR01 result passes exactly when both dashboard files and the
\* provider file exist, whatever the health probe answered; the probe shows in
\* the third detail only, and no run ever raised in FR01.
C17_FR01GatedByFilesOnly ==
    /\ raisedIn # "FR01"
    /\ vpc \in (Range(RuleOrder) \ {"FR01"}) \cup {"report", "returned"} =>
          Len(results) >= 1
    /\ \A i \in 1..Len(results) :
          results[i].requirement_id = "FR01" =>
             /\ results[i].status
                   = (/\ world.ghDash.state # "absent"
                      /\ world.orgDash
                      /\ Exists(files[P_Provider]))
             /\ results[i].details[3]
                   = IF world.health = "200" THEN D("Grafana responding")
                                              ELSE D("Grafana is not running")

\* C17 witness: FR01 has passed although the health probe timed out
C17_Witness ==
    /\ world.health = "timeout"
    /\ Len(results) >= 1
    /\ results[1].requirement_id = "FR01"
    /\ results[1].status
    /\ results[1].details[3] = D("Grafana is not running")

\* the categories whose vocabulary word a lower-cased symbol of a title holds
VocabularyIn(sym) ==
    CASE sym = "issues" -> {<<"Issues">>}
      [] sym = "pull requests" -> {<<"Pull Requests">>}
      [] sym = "commits" -> {<<"Commits">>}
      [] sym = "releases" -> {<<"Releases">>}
      [] OTHER -> {}

\* every category of {Issues, Pull Requests, Commits, Releases} whose word
\* occurs in some panel title of the dashboard, case put aside
RecognizedCategories(dash) ==
    IF dash.state = "ok"
    THEN UNION {UNION {VocabularyIn(Lower(dash.titles[i])[j]) :
                          j \in 1..Len(dash.titles[i])} :
                   i \in 1..Len(dash.titles)}
    ELSE {}

\* C18: every US03 result passes exactly when the panel titles of the primary
\* dashboard hold the words of at least two categories of the vocabulary,
\* each title counting for every category whose word it holds.
C18_MetricsByVocabulary ==
    \A i \in 1..Len(results) :
        results[i].requirement_id = "US03" =>
           results[i].status
              = (Cardinality(RecognizedCategories(world.ghDash)) >= 2)

\* C19: every FR03 result passes exactly when the access-control file exists
\* and the repository variable of the primary dashboard has a non-empty
\* regex, whether dashboard_config.json exists or not.
C19_FR03AccessAndRegex ==
    \A i \in 1..Len(results) :
        results[i].requirement_id = "FR03" =>
           results[i].status
              = (/\ Exists(files[P_Access])
                 /\ world.ghDash.state = "ok"
                 /\ \E k \in 1..Len(world.ghDash.vars) :
                       /\ world.ghDash.vars[k].name = "repository"
                       /\ world.ghDash.vars[k].regex # <<>>)

\* C19 witness: FR03 has passed without any dashboard_config.json
C19_Witness ==
    /\ files[P_Filter] = Absent
    /\ Len(results) >= 3
    /\ results[3].requirement_id = "FR03"
    /\ results[3].status

\* the status rule id gives in a deployment
StatusIn(id, file, fs, w) ==
    CASE id = "FR01" -> ResultFR01(file, fs, w).status
      [] id = "FR02" ->
            ResultFR02(file, fs, w,
                CHOOSE o \in Orderings(ConfiguredOrganizationSet(file)) : TRUE).status
      [] id = "FR03" -> ResultFR03(file, fs, w).status
      [] id = "EPIC01" -> ResultEPIC01(file, fs, w).status
      [] id = "EPIC02" -> ResultEPIC02(file, fs, w).status
      [] id = "US01" -> ResultUS01(file, fs, w, grafana_url).status
      [] id = "US02" -> ResultUS02(file, fs, w).status
      [] id = "US03" ->
            ResultUS03(file, fs, w,
                CHOOSE m \in Orderings(AvailableMetricSet(w.ghDash)) : TRUE).status

\* C20: a first run over an unchanged deployment in which the datasource
\* file, the filter configuration or the primary dashboard does not parse
\* returns a result for each of the eight rules, each with the status it would
\* have were that file missing.
C20_MalformedTreatedAsMissing ==
    (vpc = "returned" /\ calls = 1 /\ stable) =>
        /\ Ids(results) = RuleOrder
        /\ \A f \in {P_Datasource, P_Filter} :
              files[f] = Malformed =>
                 \A i \in 1..Len(results) :
                     results[i].status
                        = StatusIn(results[i].requirement_id, envFile,
                                   [files EXCEPT ![f] = Absent], world)
        /\ world.ghDash.state = "malformed" =>
              \A i \in 1..Len(results) :
                  results[i].status
                     = StatusIn(results[i].requirement_id, envFile, files,
                                [world EXCEPT !.ghDash = NoDashboard])

====
